---- MODULE Spec2Model ----
(***************************************************************************)
(* Model of mcp-google-vertex: the GoogleGenAIService (generateImage,      *)
(* generateVideo with its poll loop and result conversion), the            *)
(* StorageService and the generate-image / generate-video tool handlers.   *)
(*                                                                         *)
(* One behaviour is one call.  The call enters either through a tool       *)
(* handler (entry = "tool", arguments already accepted by the zod input    *)
(* schema) or directly at the service (entry = "service").  The provider   *)
(* (Vertex AI), the timer and the file system are the environment: their   *)
(* answers are chosen nondeterministically at each await.                  *)
(* Time is in milliseconds, as in the source; how late the timers fire and *)
(* how long a provider round trip takes are fixed per call.                *)
(***************************************************************************)
EXTENDS Integers, Sequences, FiniteSets, TLC

\* ------------------------------------------------------------------ bounds
\* The timers of a call fire 0..MaxLateness ms after the requested delay.
MaxLateness == 1
\* The provider round trips of a call (submission, refresh) take
\* 0..MaxLatency ms.
MaxLatency == 1
\* A provider result set holds at most MaxItems items.
MaxItems == 2

\* ------------------------------------------------- optional values (x?: T)
None == <<>>
Some(v) == <<v>>
IsSome(x) == x # <<>>
\* `const { f = d } = options`: the default applies when f is undefined.
OrDefault(x, d) == IF x = <<>> THEN d ELSE x[1]

\* maxWaitTime with a slipped factor: 100 minutes.
maxWaitTimeSlipped == 100 * 60 * 1000

\* ------------------------------------------------------------ time constants
maxWaitTime == 10 * 60 * 1000
pollInterval == 15 * 1000

\* ------------------------------------------------------------------ prompts
\* A prompt is its length and the length of prompt.trim().
MaxImagePromptLen == 4000
MaxVideoPromptLen == 1000

Prompts ==
  { [len |-> 0, trimmed |-> 0],          \* ""
    [len |-> 3, trimmed |-> 0],          \* "   "
    [len |-> 3, trimmed |-> 3],
    [len |-> 1000, trimmed |-> 1000],
    [len |-> 1001, trimmed |-> 1001],
    [len |-> 4000, trimmed |-> 4000],
    [len |-> 4001, trimmed |-> 4001] }

MsgPromptRequired == "Prompt is required and must be a non-empty string"
MsgImagePromptLong == "Prompt must be less than 4000 characters"
MsgVideoPromptLong == "Prompt must be less than 1000 characters for video generation"

\* Errors are the sequence of the parts of their message, outermost prefix
\* first; <<>> stands for "nothing thrown".
NoError == <<>>

\* generateImage, prompt checks.
imagePromptCheck(p) ==
  IF p.len = 0 \/ p.trimmed = 0 THEN <<MsgPromptRequired>>
  ELSE IF p.len > MaxImagePromptLen THEN <<MsgImagePromptLong>>
  ELSE NoError

\* generateVideo, prompt checks.
videoPromptCheck(p) ==
  IF p.len = 0 \/ p.trimmed = 0 THEN <<MsgPromptRequired>>
  ELSE IF p.len > MaxVideoPromptLen THEN <<MsgVideoPromptLong>>
  ELSE NoError

\* ------------------------------------------------------------------ options
\* Every option is optional; the fields of the other kind stay None.
NoOptions ==
  [ numberOfImages |-> None, guidanceScale |-> None,
    outputCompressionQuality |-> None, aspectRatio |-> None,
    outputMimeType |-> None, imageSize |-> None,
    numberOfVideos |-> None, durationSeconds |-> None, fps |-> None,
    resolution |-> None ]

MsgNumberOfImages == "numberOfImages must be between 1 and 8"
MsgGuidanceScale == "guidanceScale must be between 1 and 20"
MsgCompressionQuality == "outputCompressionQuality must be between 1 and 100"
MsgImageAspectRatio == "aspectRatio must be one of: 1:1, 3:4, 4:3, 9:16, 16:9"
MsgMimeType == "outputMimeType must be one of: image/jpeg, image/png"
MsgNumberOfVideos == "numberOfVideos must be between 1 and 4"
MsgDurationSeconds == "durationSeconds must be between 2 and 10"
MsgFps == "fps must be between 8 and 30"
MsgVideoAspectRatio == "aspectRatio must be one of: 16:9, 9:16"
MsgResolution == "resolution must be one of: 720p, 1080p"

validImageAspectRatios == {"1:1", "3:4", "4:3", "9:16", "16:9"}
validMimeTypes == {"image/jpeg", "image/png"}
validVideoAspectRatios == {"16:9", "9:16"}
validResolutions == {"720p", "1080p"}

\* validateImageOptions with the lower bound of numberOfImages off by one.
validateImageOptionsOffByOne(o) ==
  LET numberOfImages == OrDefault(o.numberOfImages, 1)
      outputCompressionQuality == OrDefault(o.outputCompressionQuality, 85)
      aspectRatio == OrDefault(o.aspectRatio, "1:1")
      outputMimeType == OrDefault(o.outputMimeType, "image/jpeg")
  IN IF numberOfImages < 0 \/ numberOfImages > 8 THEN <<MsgNumberOfImages>>
     ELSE IF IsSome(o.guidanceScale)
             /\ (o.guidanceScale[1] < 1 \/ o.guidanceScale[1] > 20)
       THEN <<MsgGuidanceScale>>
     ELSE IF outputCompressionQuality < 1 \/ outputCompressionQuality > 100
       THEN <<MsgCompressionQuality>>
     ELSE IF aspectRatio \notin validImageAspectRatios
       THEN <<MsgImageAspectRatio>>
     ELSE IF outputMimeType \notin validMimeTypes THEN <<MsgMimeType>>
     ELSE NoError

\* validateImageOptions: the first violated rule throws.
validateImageOptions(o) ==
  LET numberOfImages == OrDefault(o.numberOfImages, 1)
      outputCompressionQuality == OrDefault(o.outputCompressionQuality, 85)
      aspectRatio == OrDefault(o.aspectRatio, "1:1")
      outputMimeType == OrDefault(o.outputMimeType, "image/jpeg")
  IN IF numberOfImages < 1 \/ numberOfImages > 8 THEN <<MsgNumberOfImages>>
     ELSE IF IsSome(o.guidanceScale)
             /\ (o.guidanceScale[1] < 1 \/ o.guidanceScale[1] > 20)
       THEN <<MsgGuidanceScale>>
     ELSE IF outputCompressionQuality < 1 \/ outputCompressionQuality > 100
       THEN <<MsgCompressionQuality>>
     ELSE IF aspectRatio \notin validImageAspectRatios
       THEN <<MsgImageAspectRatio>>
     ELSE IF outputMimeType \notin validMimeTypes THEN <<MsgMimeType>>
     ELSE NoError

\* validateVideoOptions with the upper bound of fps at 60.
validateVideoOptionsWideFps(o) ==
  LET numberOfVideos == OrDefault(o.numberOfVideos, 1)
      durationSeconds == OrDefault(o.durationSeconds, 5)
      aspectRatio == OrDefault(o.aspectRatio, "16:9")
      resolution == OrDefault(o.resolution, "720p")
  IN IF numberOfVideos < 1 \/ numberOfVideos > 4 THEN <<MsgNumberOfVideos>>
     ELSE IF durationSeconds < 2 \/ durationSeconds > 10
       THEN <<MsgDurationSeconds>>
     ELSE IF IsSome(o.fps) /\ (o.fps[1] < 8 \/ o.fps[1] > 60) THEN <<MsgFps>>
     ELSE IF aspectRatio \notin validVideoAspectRatios
       THEN <<MsgVideoAspectRatio>>
     ELSE IF resolution \notin validResolutions THEN <<MsgResolution>>
     ELSE NoError

\* validateVideoOptions: the first violated rule throws.
validateVideoOptions(o) ==
  LET numberOfVideos == OrDefault(o.numberOfVideos, 1)
      durationSeconds == OrDefault(o.durationSeconds, 5)
      aspectRatio == OrDefault(o.aspectRatio, "16:9")
      resolution == OrDefault(o.resolution, "720p")
  IN IF numberOfVideos < 1 \/ numberOfVideos > 4 THEN <<MsgNumberOfVideos>>
     ELSE IF durationSeconds < 2 \/ durationSeconds > 10
       THEN <<MsgDurationSeconds>>
     ELSE IF IsSome(o.fps) /\ (o.fps[1] < 8 \/ o.fps[1] > 30) THEN <<MsgFps>>
     ELSE IF aspectRatio \notin validVideoAspectRatios
       THEN <<MsgVideoAspectRatio>>
     ELSE IF resolution \notin validResolutions THEN <<MsgResolution>>
     ELSE NoError

\* The values tried for each option: undefined, both ends of the range and
\* the first value outside at each end.
ImageFieldValues ==
  [ numberOfImages |-> {None, Some(0), Some(1), Some(8), Some(9)},
    guidanceScale |-> {None, Some(0), Some(1), Some(20), Some(21)},
    outputCompressionQuality |->
      {None, Some(0), Some(1), Some(100), Some(101)},
    aspectRatio |-> {None, Some("16:9"), Some("2:1")},
    outputMimeType |->
      {None, Some("image/jpeg"), Some("image/png"), Some("image/gif")},
    imageSize |-> {None, Some("2K")} ]

VideoFieldValues ==
  [ numberOfVideos |-> {None, Some(0), Some(1), Some(4), Some(5)},
    durationSeconds |->
      {None, Some(1), Some(2), Some(4), Some(5), Some(6), Some(8), Some(10),
       Some(11)},
    fps |-> {None, Some(7), Some(8), Some(30), Some(31)},
    aspectRatio |-> {None, Some("9:16"), Some("4:3")},
    resolution |-> {None, Some("1080p"), Some("480p")} ]

\* Option sets that differ from `base` in at most one field.
OneFieldFrom(base, values) ==
  UNION { { [base EXCEPT ![f] = v] : v \in values[f] } : f \in DOMAIN values }

\* Option sets with every combination of the values tried.
ImageOptionProduct ==
  { [NoOptions EXCEPT !.numberOfImages = n, !.guidanceScale = g,
                      !.outputCompressionQuality = q, !.aspectRatio = a,
                      !.outputMimeType = m, !.imageSize = z] :
      n \in ImageFieldValues.numberOfImages,
      g \in ImageFieldValues.guidanceScale,
      q \in ImageFieldValues.outputCompressionQuality,
      a \in ImageFieldValues.aspectRatio,
      m \in ImageFieldValues.outputMimeType,
      z \in ImageFieldValues.imageSize }

VideoOptionProduct ==
  { [NoOptions EXCEPT !.numberOfVideos = n, !.durationSeconds = d, !.fps = f,
                      !.aspectRatio = a, !.resolution = r] :
      n \in VideoFieldValues.numberOfVideos,
      d \in VideoFieldValues.durationSeconds,
      f \in VideoFieldValues.fps,
      a \in VideoFieldValues.aspectRatio,
      r \in VideoFieldValues.resolution }

ImageOptionSets == OneFieldFrom(NoOptions, ImageFieldValues)
VideoOptionSets == OneFieldFrom(NoOptions, VideoFieldValues)

\* The zod inputSchema of the generate-image tool: every argument is
\* .optional(), so an omitted argument reaches the handler as undefined.
imageInputSchema(a) ==
  /\ a.numberOfImages \in {None} \cup {Some(n) : n \in 1..8}
  /\ a.guidanceScale \in {None} \cup {Some(n) : n \in 1..20}
  /\ a.aspectRatio \in {None} \cup {Some(r) : r \in validImageAspectRatios}
  /\ a.outputMimeType \in {None, Some("image/png"), Some("image/jpeg")}
  /\ a.imageSize \in {None, Some("1K"), Some("2K")}
  /\ a.outputCompressionQuality = None

\* The zod inputSchema of the generate-video tool.
videoInputSchema(a) ==
  /\ a.numberOfVideos \in {None} \cup {Some(n) : n \in 1..4}
  /\ a.durationSeconds \in {None} \cup {Some(n) : n \in 4..8}
  /\ a.fps \in {None} \cup {Some(n) : n \in 8..30}
  /\ a.aspectRatio \in {None} \cup {Some(r) : r \in validVideoAspectRatios}
  /\ a.resolution \in {None} \cup {Some(r) : r \in validResolutions}

\* The options object the generate-image handler builds from its arguments.
imageHandlerOptions(a) == [a EXCEPT !.outputCompressionQuality = Some(100)]

\* The options object the generate-video handler builds from its arguments.
videoHandlerOptions(a) == a

\* genImConfig: the options with generateImage's own defaults applied.
genImConfig(o) ==
  [ aspectRatio |-> OrDefault(o.aspectRatio, "1:1"),
    numberOfImages |-> OrDefault(o.numberOfImages, 1),
    guidanceScale |-> o.guidanceScale,
    outputMimeType |-> OrDefault(o.outputMimeType, "image/png"),
    outputCompressionQuality |-> OrDefault(o.outputCompressionQuality, 85),
    imageSize |-> OrDefault(o.imageSize, "1K") ]

\* genVidConfig: the options with generateVideo's own defaults applied.
genVidConfig(o) ==
  [ numberOfVideos |-> OrDefault(o.numberOfVideos, 1),
    durationSeconds |-> OrDefault(o.durationSeconds, 8),
    aspectRatio |-> OrDefault(o.aspectRatio, "16:9"),
    resolution |-> OrDefault(o.resolution, "720p"),
    fps |-> o.fps ]

\* ------------------------------------------------------- provider payloads
\* Encoded payloads: base64 text, or text that is not base64.
EncodedPayloads ==
  { [id |-> 1, base64 |-> TRUE], [id |-> 2, base64 |-> TRUE],
    [id |-> 3, base64 |-> FALSE] }

\* Buffer.from(s, "base64") never throws: text that is not base64 decodes
\* leniently to whatever bytes its valid characters give.
BufferFromBase64(e) == [bytes |-> e.id, intact |-> e.base64]

\* A result item (GeneratedVideo / GeneratedImage):
\*   data  - the item has a .video / .image object
\*   uri   - that object has a .uri / .gcsUri
\*   bytes - its .videoBytes / .imageBytes, if any
ResultItems ==
  { [data |-> FALSE, uri |-> FALSE, bytes |-> None],
    [data |-> TRUE, uri |-> FALSE, bytes |-> None],
    [data |-> TRUE, uri |-> TRUE, bytes |-> None],
    [data |-> TRUE, uri |-> TRUE, bytes |-> Some([id |-> 1, base64 |-> TRUE])] }
  \cup { [data |-> TRUE, uri |-> FALSE, bytes |-> Some(e)] : e \in EncodedPayloads }

SeqsUpTo(S, n) == UNION { [1..k -> S] : k \in 0..n }

\* generatedVideos / generatedImages: absent, or a list of items.
ResultSets == {None} \cup { Some(s) : s \in SeqsUpTo(ResultItems, MaxItems) }

\* An Operation snapshot as the service reads it: done, whether it has a
\* name, whether its error field is populated, and response.generatedVideos.
NoOperation == [done |-> FALSE, name |-> FALSE, error |-> FALSE, response |-> None]

\* Snapshots the provider may answer with.  The service reads the response
\* only after done, so pending snapshots carry none.
Snapshots ==
  { [done |-> FALSE, name |-> n, error |-> e, response |-> None] : n, e \in BOOLEAN }
  \cup { [done |-> TRUE, name |-> n, error |-> e, response |-> r] :
           n \in {TRUE}, e \in BOOLEAN, r \in ResultSets }

MsgProviderRejected == "provider request failed"
MsgTimedOut == "Video generation timed out after 10 minutes"
MsgLostHandle == "Operation name is not available for polling"
MsgOperationError == "Video generation failed: <operation.error>"
MsgNoVideos == "No videos were generated"
MsgNoValidVideo == "No valid video data was found in the response"
MsgGcsDownload == "GCS file download not implemented. Cannot download from <uri>"
MsgNoImages == "No images were generated"
MsgNoValidImage == "No valid image data was found in the response"
MsgGcsImage == "GCS URI handling not implemented. Please avoid using outputGcsUri."
MsgVideoFailed == "Video generation failed: "
MsgImageFailed == "Image generation failed: "
MsgVideoUnknown == "Video generation failed due to an unknown error"
MsgImageUnknown == "Image generation failed due to an unknown error"

\* A thrown value: an Error with its message parts, or something that is
\* not an Error instance.
Thrown(parts) == [isError |-> TRUE, message |-> parts]

\* What a download that answered without data would hand back.
EmptyBuffer == [bytes |-> 0, intact |-> TRUE]

\* downloadGcsFile resolving with an empty buffer instead of throwing.
downloadGcsFileResolves(uri) ==
  [ok |-> TRUE, buffer |-> EmptyBuffer, thrown |-> Thrown(<<MsgGcsDownload>>)]

\* downloadGcsFile: the placeholder always throws.
downloadGcsFile(uri) ==
  [ok |-> FALSE, buffer |-> EmptyBuffer, thrown |-> Thrown(<<MsgGcsDownload>>)]

\* The conversion loop of generateVideo over generatedVideos[i..], with the
\* buffers collected so far: the buffers, or the value thrown on the way.
RECURSIVE convertVideos(_, _, _)
convertVideos(items, i, videoBuffers) ==
  IF i > Len(items) THEN [ok |-> TRUE, buffers |-> videoBuffers]
  ELSE LET videoData == items[i] IN
    IF ~videoData.data THEN convertVideos(items, i + 1, videoBuffers)
    ELSE IF videoData.uri /\ ~downloadGcsFile(videoData.uri).ok
      THEN [ok |-> FALSE, thrown |-> downloadGcsFile(videoData.uri).thrown]
    ELSE LET downloaded ==
               IF videoData.uri
                 THEN Append(videoBuffers, downloadGcsFile(videoData.uri).buffer)
                 ELSE videoBuffers
         IN IF IsSome(videoData.bytes)
              THEN convertVideos(items, i + 1,
                     Append(downloaded, BufferFromBase64(videoData.bytes[1])))
              ELSE convertVideos(items, i + 1, downloaded)

\* The conversion loop of generateImage over generatedImages[i..].
RECURSIVE convertImages(_, _, _)
convertImages(items, i, imageBuffers) ==
  IF i > Len(items) THEN [ok |-> TRUE, buffers |-> imageBuffers]
  ELSE LET imageData == items[i] IN
    IF ~imageData.data THEN convertImages(items, i + 1, imageBuffers)
    ELSE IF imageData.uri
      THEN [ok |-> FALSE, thrown |-> Thrown(<<MsgGcsImage>>)]
    ELSE IF IsSome(imageData.bytes)
      THEN convertImages(items, i + 1,
             Append(imageBuffers, BufferFromBase64(imageData.bytes[1])))
    ELSE convertImages(items, i + 1, imageBuffers)

\* catch (error) of generateVideo: rethrow with the stage prefix.
videoCatch(t) ==
  IF t.isError THEN Thrown(<<MsgVideoFailed>> \o t.message)
  ELSE Thrown(<<MsgVideoUnknown>>)

\* catch (error) of generateImage.
imageCatch(t) ==
  IF t.isError THEN Thrown(<<MsgImageFailed>> \o t.message)
  ELSE Thrown(<<MsgImageUnknown>>)

\* videoResult with the result-set check made before the error check.
videoResultEmptyFirst(op) ==
  IF op.response = None \/ Len(op.response[1]) = 0
    THEN [ok |-> FALSE, thrown |-> Thrown(<<MsgNoVideos>>)]
  ELSE IF op.error THEN [ok |-> FALSE, thrown |-> Thrown(<<MsgOperationError>>)]
  ELSE LET c == convertVideos(op.response[1], 1, <<>>) IN
    IF ~c.ok THEN c
    ELSE IF Len(c.buffers) = 0
      THEN [ok |-> FALSE, thrown |-> Thrown(<<MsgNoValidVideo>>)]
    ELSE c

\* videoResult returning whatever the conversion collected, nothing included.
videoResultAllowsEmpty(op) ==
  IF op.error THEN [ok |-> FALSE, thrown |-> Thrown(<<MsgOperationError>>)]
  ELSE IF op.response = None \/ Len(op.response[1]) = 0
    THEN [ok |-> FALSE, thrown |-> Thrown(<<MsgNoVideos>>)]
  ELSE convertVideos(op.response[1], 1, <<>>)

\* videoResult with each buffer put in front of the ones collected before
\* (unshift for push).
videoResultUnshifts(op) ==
  IF op.error THEN [ok |-> FALSE, thrown |-> Thrown(<<MsgOperationError>>)]
  ELSE IF op.response = None \/ Len(op.response[1]) = 0
    THEN [ok |-> FALSE, thrown |-> Thrown(<<MsgNoVideos>>)]
  ELSE LET c == convertVideos(op.response[1], 1, <<>>) IN
    IF ~c.ok THEN c
    ELSE IF Len(c.buffers) = 0
      THEN [ok |-> FALSE, thrown |-> Thrown(<<MsgNoValidVideo>>)]
    ELSE [ok |-> TRUE,
          buffers |-> [j \in 1..Len(c.buffers) |->
                         c.buffers[Len(c.buffers) + 1 - j]]]

\* generateVideo after the poll loop: error check, result check, conversion.
\* The outcome is the buffers returned or the value thrown inside the try.
videoResult(op) ==
  IF op.error THEN [ok |-> FALSE, thrown |-> Thrown(<<MsgOperationError>>)]
  ELSE IF op.response = None \/ Len(op.response[1]) = 0
    THEN [ok |-> FALSE, thrown |-> Thrown(<<MsgNoVideos>>)]
  ELSE LET c == convertVideos(op.response[1], 1, <<>>) IN
    IF ~c.ok THEN c
    ELSE IF Len(c.buffers) = 0
      THEN [ok |-> FALSE, thrown |-> Thrown(<<MsgNoValidVideo>>)]
    ELSE c

\* generateImage after generateImages answered.
imageResult(generatedImages) ==
  IF generatedImages = None \/ Len(generatedImages[1]) = 0
    THEN [ok |-> FALSE, thrown |-> Thrown(<<MsgNoImages>>)]
  ELSE LET c == convertImages(generatedImages[1], 1, <<>>) IN
    IF ~c.ok THEN c
    ELSE IF Len(c.buffers) = 0
      THEN [ok |-> FALSE, thrown |-> Thrown(<<MsgNoValidImage>>)]
    ELSE c

\* ------------------------------------------------------------------ storage
MsgWriteFailed == "file system error"

\* StorageService.generateFilename: `${prefix}_${timestamp}_${random}.${extension}`
\* with prefix `image_${n}` / `video_${n}`; the timestamp and the random part
\* carry no information the handlers use.
generateFilename(stem, n, extension) ==
  [stem |-> stem, n |-> n, extension |-> extension]

\* join(this.storagePath, filename)
filePathOf(filename) == [dir |-> "storagePath", name |-> filename]

\* ------------------------------------------------------------ tool handlers
MsgImageHandlerFailed == "Failed to generate image: "
MsgVideoHandlerFailed == "Failed to generate video: "
MsgUnknownError == "Unknown error"
MsgImagesSaved == "<count> image(s) generated and saved"
MsgVideosSaved == "<count> video(s) generated and saved"

NoResponse == [sent |-> FALSE]

\* handlerCatch with the instanceof test inverted: the cause is dropped.
handlerCatchDropsCause(k, t) ==
  LET errorMessage == IF ~t.isError THEN t.message ELSE <<MsgUnknownError>>
  IN [ sent |-> TRUE, success |-> FALSE, count |-> 0, isError |-> TRUE,
       message |-> <<IF k = "image" THEN MsgImageHandlerFailed
                     ELSE MsgVideoHandlerFailed>> \o errorMessage,
       filePaths |-> None, filenames |-> None ]

\* catch (error) of the generate-image / generate-video handler.
handlerCatch(k, t) ==
  LET errorMessage == IF t.isError THEN t.message ELSE <<MsgUnknownError>>
  IN [ sent |-> TRUE, success |-> FALSE, count |-> 0, isError |-> TRUE,
       message |-> <<IF k = "image" THEN MsgImageHandlerFailed
                     ELSE MsgVideoHandlerFailed>> \o errorMessage,
       filePaths |-> None, filenames |-> None ]

\* The success output of a handler.
handlerOutput(k, buffers, paths, names) ==
  [ sent |-> TRUE, success |-> TRUE, count |-> Len(buffers), isError |-> FALSE,
    message |-> <<IF k = "image" THEN MsgImagesSaved ELSE MsgVideosSaved>>,
    filePaths |-> IF Len(paths) > 0 THEN Some(paths) ELSE None,
    filenames |-> IF Len(names) > 0 THEN Some(names) ELSE None ]

\* fileExtension in the generate-image handler; videos are always mp4.
fileExtension(k, o) ==
  IF k = "video" THEN "mp4"
  ELSE IF o.outputMimeType = Some("image/png") THEN "png" ELSE "jpg"

\* -------------------------------------------------------------------- state
VARIABLES
  entry,         \* "tool": through a tool handler; "service": direct call
  kind,          \* "image" or "video"
  prompt,        \* the prompt argument
  options,       \* the options object passed to generateImage/generateVideo
  pc,            \* where the call is
  lateness,      \* ms by which this call's timers fire late
  latency,       \* ms a provider round trip takes during this call
  now,           \* Date.now(), ms since the call arrived
  startTime,     \* startTime of the poll loop
  operation,     \* the current Operation snapshot
  res,           \* generateImage: generatedImages of the provider's answer
  submitted,     \* the configs sent with generateImages / generateVideos
  refreshCount,  \* number of getVideosOperation calls issued
  lastRefreshAt, \* now - startTime when the latest one was issued
  sleeps,        \* number of poll-interval timers started
  svc,           \* what generateImage/generateVideo returned or threw
  saved,         \* handler: filenames and paths pushed so far
  files,         \* storage: the files written, in order
  response,      \* handler: the tool response
  calls          \* concurrent generateVideo calls: the locals of each

vars == <<entry, kind, prompt, options, pc, lateness, latency, res, now, startTime, operation,
          submitted, refreshCount, lastRefreshAt, sleeps, svc, saved, files,
          response, calls>>

Pending == [status |-> "pending"]
Returned(buffers) == [status |-> "returned", buffers |-> buffers]
Threw(t) == [status |-> "thrown", thrown |-> t]

NothingSaved == [filenames |-> <<>>, filePaths |-> <<>>]

\* The prompt the option sets are combined with.
PlainPrompt == [len |-> 3, trimmed |-> 3]

\* The inputs a call can arrive with: every prompt with the empty options
\* and with an option set that fails validation, every option set with the
\* plain prompt.
Inputs(e, k, p, o) ==
  /\ e \in {"tool", "service"}
  /\ k \in {"image", "video"}
  /\ p \in Prompts
  /\ \/ p = PlainPrompt
     \/ o = NoOptions
     \/ o = [NoOptions EXCEPT !.numberOfImages = Some(0)]
     \/ o = [NoOptions EXCEPT !.numberOfVideos = Some(0)]
  /\ IF e = "service"
       THEN o \in (IF k = "image" THEN ImageOptionSets ELSE VideoOptionSets)
       ELSE IF k = "image"
         THEN \E a \in ImageOptionSets :
                imageInputSchema(a) /\ o = imageHandlerOptions(a)
         ELSE \E a \in VideoOptionSets :
                videoInputSchema(a) /\ o = videoHandlerOptions(a)

InitRest ==
  /\ pc = "call"
  /\ now = 0
  /\ startTime = 0
  /\ operation = NoOperation
  /\ res = None
  /\ submitted = <<>>
  /\ refreshCount = 0
  /\ lastRefreshAt = 0
  /\ sleeps = 0
  /\ svc = Pending
  /\ saved = NothingSaved
  /\ files = <<>>
  /\ response = NoResponse

\* Concurrent generateVideo calls on the one service instance.
CallIds == {1, 2}

\* A snapshot held by a concurrent call also says which submission it is a
\* snapshot of (0: none yet).
NoCallOperation ==
  [handle |-> 0, done |-> FALSE, name |-> FALSE, error |-> FALSE, response |-> None]

\* The locals of a generateVideo call that has passed validation; call c
\* arrives c - 1 ms after the first.
CallLocals(c) ==
  [ pc |-> "submit", operation |-> NoCallOperation, startTime |-> 0,
    now |-> c - 1, refreshCount |-> 0, sleeps |-> 0, svc |-> Pending ]

NoCalls == [c \in CallIds |-> CallLocals(c)]

Init ==
  /\ entry \in {"tool", "service"}
  /\ kind \in {"image", "video"}
  /\ prompt \in Prompts
  /\ options \in ImageOptionSets \cup VideoOptionSets
  /\ Inputs(entry, kind, prompt, options)
  /\ lateness \in 0..MaxLateness
  /\ latency \in 0..MaxLatency
  /\ InitRest
  /\ calls = NoCalls

\* ------------------------------------------------------- leaving the service
\* ServiceThrows with one more attempt: the first failure of a video call
\* after its submission sends the call back to the submission.
ServiceThrowsResubmits(t) ==
  IF kind = "video" /\ Len(submitted) = 1 /\ pc # "submit"
    THEN svc' = svc /\ response' = response /\ pc' = "submit"
    ELSE /\ svc' = Threw(t)
         /\ response' = IF entry = "tool" THEN handlerCatch(kind, t) ELSE response
         /\ pc' = "done"

\* generateImage/generateVideo throws t: a direct caller gets the rejection,
\* a tool handler catches it and answers.
ServiceThrows(t) ==
  /\ svc' = Threw(t)
  /\ response' = IF entry = "tool" THEN handlerCatch(kind, t) ELSE response
  /\ pc' = "done"

\* generateImage/generateVideo returns buffers: a tool handler goes on to
\* save them (or answers at once when there is nothing to save).
ServiceReturns(buffers) ==
  /\ svc' = Returned(buffers)
  /\ IF entry = "tool" /\ Len(buffers) > 0
       THEN pc' = "save" /\ response' = response
       ELSE /\ pc' = "done"
            /\ response' = IF entry = "tool"
                 THEN handlerOutput(kind, buffers, <<>>, <<>>) ELSE response

\* ------------------------------------------------------------------ actions
\* The same with the options validated before the prompt.
ValidateOptionsFirst ==
  /\ pc = "call"
  /\ LET promptError == IF kind = "image" THEN imagePromptCheck(prompt)
                        ELSE videoPromptCheck(prompt)
         optionError == IF kind = "image" THEN validateImageOptions(options)
                        ELSE validateVideoOptions(options)
     IN IF optionError # NoError THEN ServiceThrows(Thrown(optionError))
        ELSE IF promptError # NoError THEN ServiceThrows(Thrown(promptError))
        ELSE pc' = "submit" /\ UNCHANGED <<svc, response>>
  /\ UNCHANGED <<entry, kind, prompt, options, lateness, latency, calls, res, now, startTime, operation,
                 submitted, refreshCount, lastRefreshAt, sleeps, saved, files>>

\* generateImage / generateVideo up to the try block: prompt checks, then
\* validateImageOptions / validateVideoOptions; both throw outside the try.
Validate ==
  /\ pc = "call"
  /\ LET promptError == IF kind = "image" THEN imagePromptCheck(prompt)
                        ELSE videoPromptCheck(prompt)
         optionError == IF kind = "image" THEN validateImageOptions(options)
                        ELSE validateVideoOptions(options)
     IN IF promptError # NoError THEN ServiceThrows(Thrown(promptError))
        ELSE IF optionError # NoError THEN ServiceThrows(Thrown(optionError))
        ELSE pc' = "submit" /\ UNCHANGED <<svc, response>>
  /\ UNCHANGED <<entry, kind, prompt, options, lateness, latency, calls, res, now, startTime, operation,
                 submitted, refreshCount, lastRefreshAt, sleeps, saved, files>>

\* await this.genAI.models.generateImages(...) and the rest of the try block.
SubmitImage ==
  /\ pc = "submit" /\ kind = "image"
  /\ submitted' = Append(submitted, genImConfig(options))
  /\ now' = now + latency
  /\ \/ /\ ServiceThrows(imageCatch(Thrown(<<MsgProviderRejected>>)))
        /\ UNCHANGED res
     \/ \E generatedImages \in ResultSets :
          /\ res' = generatedImages
          /\ LET r == imageResult(generatedImages) IN
             IF r.ok THEN ServiceReturns(r.buffers)
             ELSE ServiceThrows(imageCatch(r.thrown))
  /\ UNCHANGED <<entry, kind, prompt, options, lateness, latency, calls, startTime,
                 operation, refreshCount, lastRefreshAt, sleeps, saved, files>>

\* let operation = await this.genAI.models.generateVideos(...); startTime.
SubmitVideo ==
  /\ pc = "submit" /\ kind = "video"
  /\ submitted' = Append(submitted, genVidConfig(options))
  /\ now' = now + latency
  /\ \/ /\ ServiceThrows(videoCatch(Thrown(<<MsgProviderRejected>>)))
        /\ UNCHANGED <<operation, startTime>>
     \/ /\ operation' \in Snapshots
        /\ startTime' = now'
        /\ pc' = "loop"
        /\ UNCHANGED <<svc, response>>
  /\ UNCHANGED <<entry, kind, prompt, options, lateness, latency, calls, res, refreshCount, lastRefreshAt, sleeps, saved, files>>

\* LoopCheck with the deadline tested before the done flag.
LoopCheckDeadlineFirst ==
  /\ pc = "loop"
  /\ IF now - startTime > maxWaitTime
       THEN ServiceThrows(videoCatch(Thrown(<<MsgTimedOut>>))) /\ UNCHANGED sleeps
     ELSE IF operation.done THEN pc' = "finish" /\ UNCHANGED <<svc, response, sleeps>>
     ELSE pc' = "sleep" /\ sleeps' = sleeps + 1 /\ UNCHANGED <<svc, response>>
  /\ UNCHANGED <<entry, kind, prompt, options, lateness, latency, calls, res, now, startTime, operation,
                 submitted, refreshCount, lastRefreshAt, saved, files>>

\* LoopCheck reporting the timeout without leaving the loop.
LoopCheckKeepsPolling ==
  /\ pc = "loop"
  /\ IF operation.done THEN pc' = "finish" /\ UNCHANGED <<svc, response, sleeps>>
     ELSE IF now - startTime > maxWaitTime /\ svc.status = "pending"
       THEN /\ svc' = Threw(videoCatch(Thrown(<<MsgTimedOut>>)))
            /\ response' = IF entry = "tool"
                 THEN handlerCatch(kind, svc'.thrown) ELSE response
            /\ pc' = "sleep" /\ sleeps' = sleeps + 1
     ELSE pc' = "sleep" /\ sleeps' = sleeps + 1 /\ UNCHANGED <<svc, response>>
  /\ UNCHANGED <<entry, kind, prompt, options, lateness, latency, calls, res, now, startTime, operation,
                 submitted, refreshCount, lastRefreshAt, saved, files>>

\* The loop as do { ... } while (!operation.done): the first timer is started
\* whatever the submitted operation says.
LoopCheckSleepsFirst ==
  /\ pc = "loop"
  /\ IF operation.done /\ sleeps > 0
       THEN pc' = "finish" /\ UNCHANGED <<svc, response, sleeps>>
     ELSE IF now - startTime > maxWaitTime
       THEN ServiceThrows(videoCatch(Thrown(<<MsgTimedOut>>))) /\ UNCHANGED sleeps
     ELSE pc' = "sleep" /\ sleeps' = sleeps + 1 /\ UNCHANGED <<svc, response>>
  /\ UNCHANGED <<entry, kind, prompt, options, lateness, latency, calls, res, now, startTime, operation,
                 submitted, refreshCount, lastRefreshAt, saved, files>>

\* while (!operation.done): the deadline check, then the timer is started.
LoopCheck ==
  /\ pc = "loop"
  /\ IF operation.done THEN pc' = "finish" /\ UNCHANGED <<svc, response, sleeps>>
     ELSE IF now - startTime > maxWaitTime
       THEN ServiceThrows(videoCatch(Thrown(<<MsgTimedOut>>))) /\ UNCHANGED sleeps
     ELSE pc' = "sleep" /\ sleeps' = sleeps + 1 /\ UNCHANGED <<svc, response>>
  /\ UNCHANGED <<entry, kind, prompt, options, lateness, latency, calls, res, now, startTime, operation,
                 submitted, refreshCount, lastRefreshAt, saved, files>>

\* The timer fires; if (operation.name) getVideosOperation is issued.
Sleep ==
  /\ pc = "sleep"
  /\ now' = now + pollInterval + lateness
  /\ IF operation.name
       THEN /\ refreshCount' = refreshCount + 1
            /\ lastRefreshAt' = now' - startTime
            /\ pc' = "refresh"
            /\ UNCHANGED <<svc, response>>
       ELSE /\ ServiceThrows(videoCatch(Thrown(<<MsgLostHandle>>)))
            /\ UNCHANGED <<refreshCount, lastRefreshAt>>
  /\ UNCHANGED <<entry, kind, prompt, options, lateness, latency, calls, res, startTime, operation,
                 submitted, sleeps, saved, files>>

\* Refresh with the deadline tested again as soon as the answer is in.
RefreshChecksDeadline ==
  /\ pc = "refresh"
  /\ now' = now + latency
  /\ \/ /\ ServiceThrows(videoCatch(Thrown(<<MsgProviderRejected>>)))
        /\ UNCHANGED operation
     \/ /\ operation' \in Snapshots
        /\ IF now' - startTime > maxWaitTime
             THEN ServiceThrows(videoCatch(Thrown(<<MsgTimedOut>>)))
             ELSE pc' = "loop" /\ UNCHANGED <<svc, response>>
  /\ UNCHANGED <<entry, kind, prompt, options, lateness, latency, calls, res, startTime, submitted,
                 refreshCount, lastRefreshAt, sleeps, saved, files>>

\* getVideosOperation answers: the snapshot is replaced, or the call rejects.
Refresh ==
  /\ pc = "refresh"
  /\ now' = now + latency
  /\ \/ /\ ServiceThrows(videoCatch(Thrown(<<MsgProviderRejected>>)))
        /\ UNCHANGED operation
     \/ /\ operation' \in Snapshots
        /\ pc' = "loop"
        /\ UNCHANGED <<svc, response>>
  /\ UNCHANGED <<entry, kind, prompt, options, lateness, latency, calls, res, startTime, submitted,
                 refreshCount, lastRefreshAt, sleeps, saved, files>>

\* After the loop: operation.error, generatedVideos, conversion to buffers.
Finish ==
  /\ pc = "finish"
  /\ LET r == videoResult(operation) IN
     IF r.ok THEN ServiceReturns(r.buffers)
     ELSE ServiceThrows(videoCatch(r.thrown))
  /\ UNCHANGED <<entry, kind, prompt, options, lateness, latency, calls, res, now, startTime, operation,
                 submitted, refreshCount, lastRefreshAt, sleeps, saved, files>>

\* One turn of the handler's save loop: generateFilename, then
\* await storage.saveImage / saveVideo, which writes the file or throws;
\* after the last buffer the handler answers.
Save ==
  /\ pc = "save"
  /\ LET i == Len(saved.filenames) + 1
         filename == generateFilename(kind, i, fileExtension(kind, options))
         filePath == filePathOf(filename)
     IN \/ /\ files' = Append(files, [path |-> filePath, data |-> svc.buffers[i]])
           /\ saved' = [filenames |-> Append(saved.filenames, filename),
                        filePaths |-> Append(saved.filePaths, filePath)]
           /\ IF i = Len(svc.buffers)
                THEN /\ response' = handlerOutput(kind, svc.buffers,
                                      saved'.filePaths, saved'.filenames)
                     /\ pc' = "done"
                ELSE UNCHANGED <<response, pc>>
        \/ /\ response' = handlerCatch(kind, Thrown(<<MsgWriteFailed>>))
           /\ pc' = "done"
           /\ UNCHANGED <<files, saved>>
  /\ UNCHANGED <<entry, kind, prompt, options, lateness, latency, calls, res, now, startTime, operation,
                 submitted, refreshCount, lastRefreshAt, sleeps, svc>>

Next ==
  \/ Validate
  \/ SubmitImage
  \/ SubmitVideo
  \/ LoopCheck
  \/ Sleep
  \/ Refresh
  \/ Finish
  \/ Save

Spec == Init /\ [][Next]_vars

\* The poll-loop claims are checked on calls with the empty options and
\* the plain prompt; the environment is as in Spec.
InitPoll ==
  /\ entry \in {"tool", "service"}
  /\ kind \in {"image", "video"}
  /\ prompt = PlainPrompt
  /\ options = IF entry = "tool" /\ kind = "image"
                 THEN imageHandlerOptions(NoOptions) ELSE NoOptions
  /\ lateness \in 0..MaxLateness
  /\ latency \in 0..MaxLatency
  /\ InitRest
  /\ calls = NoCalls

PollSpec == InitPoll /\ [][Next]_vars

\* Every await of the call settles: timers fire, the provider and the file
\* system answer or reject, and the code between awaits runs.
FairSpec == InitPoll /\ [][Next]_vars /\ WF_vars(Next)

\* The validation claims are checked on direct calls with every combination
\* of prompt and option values, followed up to the end of the validation.
InitValidate ==
  /\ entry = "service"
  /\ kind \in {"image", "video"}
  /\ prompt \in Prompts
  /\ options \in (IF kind = "image" THEN ImageOptionProduct
                  ELSE VideoOptionProduct)
  /\ lateness = 0
  /\ latency = 0
  /\ InitRest
  /\ calls = NoCalls

ValidateSpec == InitValidate /\ [][Validate]_vars

\* ------------------------------------------------------- concurrent calls
\* Two generateVideo calls in flight on the one service instance.  operation
\* and startTime are locals of each call; the instance holds only the client.
\* The provider answers a request about a submission with a snapshot of that
\* submission, and the inline bytes it produces for submission h are payload h.
CallSnapshots(h) ==
  { [handle |-> h, done |-> FALSE, name |-> n, error |-> FALSE, response |-> None] :
      n \in BOOLEAN }
  \cup { [handle |-> h, done |-> TRUE, name |-> TRUE, error |-> e, response |-> r] :
           e \in BOOLEAN,
           r \in { None,
                   Some(<<[data |-> TRUE, uri |-> FALSE,
                           bytes |-> Some([id |-> h, base64 |-> TRUE])]>>),
                   Some(<<[data |-> TRUE, uri |-> TRUE, bytes |-> None]>>) } }

\* Call c goes on with the locals l; nothing else changes.
CallStep(c, l) ==
  /\ calls' = [calls EXCEPT ![c] = l]
  /\ UNCHANGED <<entry, kind, prompt, options, pc, lateness, latency, res, now,
                 startTime, operation, submitted, refreshCount, lastRefreshAt,
                 sleeps, svc, saved, files, response>>

CallThrows(c, t) == [calls[c] EXCEPT !.svc = Threw(t), !.pc = "done"]

\* let operation = await this.genAI.models.generateVideos(...); startTime.
CallSubmit(c) ==
  /\ calls[c].pc = "submit"
  /\ LET at == calls[c].now + latency IN
     \/ CallStep(c, [CallThrows(c, videoCatch(Thrown(<<MsgProviderRejected>>)))
                       EXCEPT !.now = at])
     \/ \E o \in CallSnapshots(c) :
          CallStep(c, [calls[c] EXCEPT !.operation = o, !.now = at,
                                       !.startTime = at, !.pc = "loop"])

\* while (!operation.done): the deadline check, then the timer is started.
CallLoopCheck(c) ==
  /\ calls[c].pc = "loop"
  /\ IF calls[c].operation.done
       THEN CallStep(c, [calls[c] EXCEPT !.pc = "finish"])
     ELSE IF calls[c].now - calls[c].startTime > maxWaitTime
       THEN CallStep(c, CallThrows(c, videoCatch(Thrown(<<MsgTimedOut>>))))
     ELSE CallStep(c, [calls[c] EXCEPT !.pc = "sleep", !.sleeps = @ + 1])

\* The timer fires; if (operation.name) getVideosOperation is issued.
CallSleep(c) ==
  /\ calls[c].pc = "sleep"
  /\ LET at == calls[c].now + pollInterval + lateness IN
     IF calls[c].operation.name
       THEN CallStep(c, [calls[c] EXCEPT !.now = at, !.refreshCount = @ + 1,
                                         !.pc = "refresh"])
       ELSE CallStep(c, [CallThrows(c, videoCatch(Thrown(<<MsgLostHandle>>)))
                           EXCEPT !.now = at])

\* The refreshed snapshot kept in a field of the service instance, which
\* every call in flight reads as its operation.
CallRefreshSharedField(c) ==
  /\ calls[c].pc = "refresh"
  /\ LET at == calls[c].now + latency IN
     \/ CallStep(c, [CallThrows(c, videoCatch(Thrown(<<MsgProviderRejected>>)))
                       EXCEPT !.now = at])
     \/ \E o \in CallSnapshots(calls[c].operation.handle) :
          /\ calls' = [d \in CallIds |->
               IF d = c
                 THEN [calls[c] EXCEPT !.operation = o, !.now = at, !.pc = "loop"]
               ELSE IF calls[d].pc \in {"loop", "sleep", "refresh"}
                 THEN [calls[d] EXCEPT !.operation = o]
               ELSE calls[d]]
          /\ UNCHANGED <<entry, kind, prompt, options, pc, lateness, latency, res,
                         now, startTime, operation, submitted, refreshCount,
                         lastRefreshAt, sleeps, svc, saved, files, response>>

\* operation = await getVideosOperation({ operation }): the provider answers
\* about the submission the call's own snapshot belongs to, or rejects.
CallRefresh(c) ==
  /\ calls[c].pc = "refresh"
  /\ LET at == calls[c].now + latency IN
     \/ CallStep(c, [CallThrows(c, videoCatch(Thrown(<<MsgProviderRejected>>)))
                       EXCEPT !.now = at])
     \/ \E o \in CallSnapshots(calls[c].operation.handle) :
          CallStep(c, [calls[c] EXCEPT !.operation = o, !.now = at, !.pc = "loop"])

\* After the loop: operation.error, generatedVideos, conversion to buffers.
CallFinish(c) ==
  /\ calls[c].pc = "finish"
  /\ LET r == videoResult(calls[c].operation) IN
     IF r.ok
       THEN CallStep(c, [calls[c] EXCEPT !.svc = Returned(r.buffers), !.pc = "done"])
       ELSE CallStep(c, CallThrows(c, videoCatch(r.thrown)))

ConcNext ==
  \E c \in CallIds :
    \/ CallSubmit(c)
    \/ CallLoopCheck(c)
    \/ CallSleep(c)
    \/ CallRefresh(c)
    \/ CallFinish(c)

\* Both calls have passed validation; timers and round trips behave the
\* same for both.
InitConc ==
  /\ entry = "service"
  /\ kind = "video"
  /\ prompt = PlainPrompt
  /\ options = NoOptions
  /\ lateness \in 0..MaxLateness
  /\ latency = 0
  /\ InitRest
  /\ calls = NoCalls

ConcSpec == InitConc /\ [][ConcNext]_vars

TypeOK ==
  /\ pc \in {"call", "submit", "loop", "sleep", "refresh", "finish", "save", "done"}
  /\ svc.status \in {"pending", "returned", "thrown"}
  /\ Len(submitted) <= 1

\* ------------------------------------------------------ reading the outcome
\* generateImage / generateVideo has settled.
Settled == svc.status # "pending"
Succeeded == svc.status = "returned"
\* It threw an Error whose message is exactly these parts.
ThrewMessage(parts) ==
  svc.status = "thrown" /\ svc.thrown.isError /\ svc.thrown.message = parts
TimedOut == ThrewMessage(<<MsgVideoFailed, MsgTimedOut>>)
ProviderFailed == ThrewMessage(<<MsgVideoFailed, MsgOperationError>>)
EmptyResult == ThrewMessage(<<MsgVideoFailed, MsgNoVideos>>)
LostHandle == ThrewMessage(<<MsgVideoFailed, MsgLostHandle>>)

\* ---------------------------------------------------------------------- C1
\* The valid ranges as the specification states them.
PromptOutOfRange ==
  \/ prompt.len = 0
  \/ prompt.trimmed = 0
  \/ prompt.len > (IF kind = "image" THEN 4000 ELSE 1000)

ImageOptionOutOfRange ==
  \/ IsSome(options.numberOfImages) /\ options.numberOfImages[1] \notin 1..8
  \/ IsSome(options.guidanceScale) /\ options.guidanceScale[1] \notin 1..20
  \/ IsSome(options.outputCompressionQuality)
       /\ options.outputCompressionQuality[1] \notin 1..100
  \/ IsSome(options.aspectRatio)
       /\ options.aspectRatio[1] \notin {"1:1", "3:4", "4:3", "9:16", "16:9"}
  \/ IsSome(options.outputMimeType)
       /\ options.outputMimeType[1] \notin {"image/jpeg", "image/png"}

VideoOptionOutOfRange ==
  \/ IsSome(options.numberOfVideos) /\ options.numberOfVideos[1] \notin 1..4
  \/ IsSome(options.durationSeconds) /\ options.durationSeconds[1] \notin 2..10
  \/ IsSome(options.fps) /\ options.fps[1] \notin 8..30
  \/ IsSome(options.aspectRatio) /\ options.aspectRatio[1] \notin {"16:9", "9:16"}
  \/ IsSome(options.resolution) /\ options.resolution[1] \notin {"720p", "1080p"}

InputOutOfRange ==
  \/ PromptOutOfRange
  \/ kind = "image" /\ ImageOptionOutOfRange
  \/ kind = "video" /\ VideoOptionOutOfRange

\* C1: when the prompt or a validated option is out of range, the call makes
\* no generateImages / generateVideos submission and no refresh, and once it
\* has left the validation it has failed.
C1_InvalidInputNeverSubmitted ==
  InputOutOfRange =>
    /\ submitted = <<>>
    /\ refreshCount = 0
    /\ sleeps = 0
    /\ pc \in {"call", "done"}
    /\ pc = "done" => svc.status = "thrown"

\* Scenario C: an image request with numberOfImages = 0 has failed.
C1_Witness ==
  /\ kind = "image"
  /\ options.numberOfImages = Some(0)
  /\ ~PromptOutOfRange
  /\ pc = "done"
  /\ ThrewMessage(<<MsgNumberOfImages>>)

\* ---------------------------------------------------------------------- C2
\* The call polled and every snapshot it saw was a pending one with a name,
\* and no provider request was rejected.
OnlyPendingSnapshots ==
  /\ kind = "video"
  /\ Len(submitted) = 1
  /\ ~operation.done
  /\ operation.name
  /\ ~ThrewMessage(<<MsgVideoFailed, MsgProviderRejected>>)

\* C2: if every refresh answers done=false the call fails with the timeout
\* error, and no getVideosOperation is issued when more than 600 seconds have
\* passed since the poll loop began.
C2_NoRefreshPastCeiling ==
  /\ refreshCount > 0 => lastRefreshAt <= 600 * 1000
  /\ (Settled /\ OnlyPendingSnapshots) => TimedOut

\* ---------------------------------------------------------------------- C3
\* A refresh (not the submission) delivered the done snapshot.
DoneByRefresh == kind = "video" /\ refreshCount >= 1 /\ operation.done

ItemsOf(op) == IF op.response = None THEN <<>> ELSE op.response[1]

HasInlineBytes(item) == item.data /\ IsSome(item.bytes)
HasLocator(item) == item.data /\ item.uri

\* Once a done snapshot is held, no further refresh is issued and no further
\* timer is started.
NoRefreshAfterDone ==
  operation.done => (refreshCount' = refreshCount /\ sleeps' = sleeps)

\* C3 as stated: done=true with a non-empty result on refresh N makes the
\* call succeed after exactly N refreshes.
C3_AsStated ==
  (DoneByRefresh /\ Len(ItemsOf(operation)) > 0 /\ Settled) => Succeeded

\* C3 amended: done=true on refresh N with no error, no item carrying a
\* remote locator and at least one item carrying inline bytes makes the call
\* succeed, with one buffer per inline-bytes item, and the refresh count
\* stays N from then on.
C3_SucceedsAfterNRefreshes ==
  /\ [] ( ( /\ DoneByRefresh
            /\ ~operation.error
            /\ \A i \in DOMAIN ItemsOf(operation) : ~HasLocator(ItemsOf(operation)[i])
            /\ \E i \in DOMAIN ItemsOf(operation) : HasInlineBytes(ItemsOf(operation)[i])
            /\ Settled )
          => ( /\ Succeeded
               /\ Len(svc.buffers) =
                    Cardinality({i \in DOMAIN ItemsOf(operation) :
                                   HasInlineBytes(ItemsOf(operation)[i])}) ) )
  /\ [][NoRefreshAfterDone]_vars

\* Done on the third refresh, two inline-bytes items, two buffers returned.
C3_Witness ==
  /\ DoneByRefresh
  /\ refreshCount = 3
  /\ ~operation.error
  /\ Len(ItemsOf(operation)) = 2
  /\ \A i \in DOMAIN ItemsOf(operation) :
       HasInlineBytes(ItemsOf(operation)[i]) /\ ~HasLocator(ItemsOf(operation)[i])
  /\ Succeeded
  /\ Len(svc.buffers) = 2
  /\ pc = "done"

\* ---------------------------------------------------------------------- C4
LocatorOnly == [data |-> TRUE, uri |-> TRUE, bytes |-> None]
InlineOnly(id) ==
  [data |-> TRUE, uri |-> FALSE, bytes |-> Some([id |-> id, base64 |-> TRUE])]

\* The completed operation of scenario D: no error, two items, one with only
\* a remote locator and one with valid inline bytes.
ScenarioD ==
  /\ kind = "video"
  /\ operation.done
  /\ ~operation.error
  /\ ItemsOf(operation) \in { <<LocatorOnly, InlineOnly(1)>>,
                              <<InlineOnly(1), LocatorOnly>> }

\* C4: in scenario D the call succeeds with exactly one artifact.
C4_ScenarioD ==
  (ScenarioD /\ Settled) => (Succeeded /\ Len(svc.buffers) = 1)

\* ---------------------------------------------------------------------- C5
\* C5: once the loop has ended on a done snapshot, a populated error makes
\* the call fail with the provider error whatever the result set is, and
\* otherwise an absent or empty result set makes it fail with the
\* empty-result error; the refresh count no longer moves, so a done-with-error
\* answer to the fourth refresh fails after exactly three pending ones.
C5_DoneSnapshotOutcome ==
  /\ [] ( (kind = "video" /\ operation.done /\ Settled) =>
            /\ operation.error => ProviderFailed
            /\ (~operation.error /\ Len(ItemsOf(operation)) = 0) => EmptyResult )
  /\ [][ (operation.done /\ ~Settled) =>
           (refreshCount' = refreshCount /\ operation' = operation) ]_vars

\* Scenario B with a result set present as well: three pending refreshes,
\* then done with error, and the call failed with the provider error.
C5_Witness ==
  /\ kind = "video"
  /\ refreshCount = 4
  /\ operation.done
  /\ operation.error
  /\ Len(ItemsOf(operation)) > 0
  /\ ProviderFailed
  /\ pc = "done"

\* ---------------------------------------------------------------------- C6
\* The loop holds a pending snapshot without a name.
NamelessPending ==
  kind = "video" /\ pc = "loop" /\ ~operation.done /\ ~operation.name

\* C6: on a pending snapshot without a name the call fails at once with the
\* lost-handle error, without another timer and without another refresh.
C6_LostHandleImmediate ==
  [][ NamelessPending =>
        (LostHandle' /\ sleeps' = sleeps /\ refreshCount' = refreshCount) ]_vars

\* ---------------------------------------------------------------------- C7
\* C7: after a refresh has answered with a populated error field, no further
\* refresh is issued, whatever the snapshot's done flag says.
C7_ErrorIsTerminal ==
  [][ (kind = "video" /\ refreshCount >= 1 /\ operation.error) =>
        refreshCount' = refreshCount ]_vars

\* ---------------------------------------------------------------------- C8
\* The state of the video path of section 4.4.  Submitted: the operation has
\* come back and no timer has been started; Polling: the loop is running or
\* has just ended on a done snapshot; Terminal: generateVideo has settled.
VideoState ==
  IF Settled THEN "Terminal"
  ELSE IF pc = "loop" /\ sleeps = 0 THEN "Submitted"
  ELSE IF pc \in {"loop", "sleep", "refresh", "finish"} THEN "Polling"
  ELSE "NotSubmitted"

VideoTransitions ==
  { <<"Submitted", "Polling">>, <<"Polling", "Polling">>,
    <<"Polling", "Terminal">>, <<"Terminal", "Terminal">> }

\* C8: a submitted generateVideo call moves Submitted -> Polling -> Terminal,
\* only Polling repeats, and once the call has settled its outcome, its
\* snapshot, its refresh count and its timers never change again; a tool
\* response, once sent, is never replaced.
C8_VideoStateMachine ==
  [][ (kind = "video" /\ VideoState # "NotSubmitted") =>
        /\ <<VideoState, VideoState'>> \in VideoTransitions
        /\ Settled => /\ svc' = svc
                      /\ operation' = operation
                      /\ refreshCount' = refreshCount
                      /\ sleeps' = sleeps
        /\ response.sent => response' = response ]_vars

\* A tool call that polled twice, succeeded and answered.
C8_Witness ==
  /\ kind = "video"
  /\ entry = "tool"
  /\ pc = "done"
  /\ refreshCount = 2
  /\ Succeeded
  /\ response.sent
  /\ response.success

\* ---------------------------------------------------------------------- C9
\* C9: with timers that fire and provider calls that return, every
\* generateVideo call settles, and it never issues more refreshes than fit
\* into the 600 s ceiling at one per 15 s, plus the one that was already
\* scheduled when the ceiling was reached.
C9_BoundedTracking ==
  /\ [](refreshCount <= (600 \div 15) + 1)
  /\ (kind = "video") => <>Settled

\* The provider never reported done and the call timed out after the largest
\* number of refreshes.
C9_Witness ==
  /\ kind = "video"
  /\ TimedOut
  /\ ~operation.done
  /\ refreshCount = (600 \div 15) + 1

\* --------------------------------------------------------------------- C10
IsSuffix(t, m) ==
  Len(t) <= Len(m) /\ SubSeq(m, Len(m) - Len(t) + 1, Len(m)) = t

\* A failure response whose message ends with the cause.
FailureResponse(cause) ==
  /\ response.sent
  /\ ~response.success
  /\ response.count = 0
  /\ response.isError
  /\ Len(cause) > 0
  /\ IsSuffix(cause, response.message)

\* C10: a finished tool call has answered; if the service threw or a save
\* failed, the answer is the failure response carrying the cause; a success
\* answer counts the returned artifacts and lists one path per artifact.
C10_TransportMapping ==
  (entry = "tool" /\ pc = "done") =>
    /\ response.sent
    /\ svc.status = "thrown" => FailureResponse(svc.thrown.message)
    /\ (svc.status = "returned" /\ Len(saved.filePaths) < Len(svc.buffers)) =>
         FailureResponse(<<MsgWriteFailed>>)
    /\ response.success =>
         /\ svc.status = "returned"
         /\ ~response.isError
         /\ response.count = Len(svc.buffers)
         /\ response.filePaths = Some(saved.filePaths)
         /\ Len(saved.filePaths) = response.count
         /\ Len(files) = response.count

\* The second of two videos could not be saved.
C10_Witness ==
  /\ entry = "tool"
  /\ kind = "video"
  /\ pc = "done"
  /\ svc.status = "returned"
  /\ Len(svc.buffers) = 2
  /\ Len(files) = 1
  /\ FailureResponse(<<MsgWriteFailed>>)

\* --------------------------------------------------------------------- C12
\* The validated fields of each kind, with the range the specification states
\* for each and the message that names the field.
ImageFieldRanges ==
  [ numberOfImages |-> 1..8, guidanceScale |-> 1..20,
    outputCompressionQuality |-> 1..100,
    aspectRatio |-> {"1:1", "3:4", "4:3", "9:16", "16:9"},
    outputMimeType |-> {"image/jpeg", "image/png"} ]

VideoFieldRanges ==
  [ numberOfVideos |-> 1..4, durationSeconds |-> 2..10, fps |-> 8..30,
    aspectRatio |-> {"16:9", "9:16"}, resolution |-> {"720p", "1080p"} ]

ImageFieldMessages ==
  [ numberOfImages |-> MsgNumberOfImages, guidanceScale |-> MsgGuidanceScale,
    outputCompressionQuality |-> MsgCompressionQuality,
    aspectRatio |-> MsgImageAspectRatio, outputMimeType |-> MsgMimeType ]

VideoFieldMessages ==
  [ numberOfVideos |-> MsgNumberOfVideos,
    durationSeconds |-> MsgDurationSeconds, fps |-> MsgFps,
    aspectRatio |-> MsgVideoAspectRatio, resolution |-> MsgResolution ]

FieldRanges == IF kind = "image" THEN ImageFieldRanges ELSE VideoFieldRanges
FieldMessages == IF kind = "image" THEN ImageFieldMessages ELSE VideoFieldMessages

\* The fields of the call's options that are present and out of range.
FieldsOutOfRange ==
  { f \in DOMAIN FieldRanges :
      IsSome(options[f]) /\ options[f][1] \notin FieldRanges[f] }

\* The prompt passed its checks and the validation has run.
OptionsValidated == ~PromptOutOfRange /\ pc # "call"

\* C12: with every validated field in range the validation succeeds, and
\* with exactly one field out of its range it fails with the error that
\* names that field.
C12_OptionValidationPerField ==
  OptionsValidated =>
    /\ FieldsOutOfRange = {} => (pc = "submit" /\ svc.status = "pending")
    /\ \A f \in DOMAIN FieldRanges :
         FieldsOutOfRange = {f} => ThrewMessage(<<FieldMessages[f]>>)

\* A video request whose only out-of-range field is fps = 31 has failed
\* with the fps error.
C12_Witness ==
  /\ kind = "video"
  /\ OptionsValidated
  /\ options.fps = Some(31)
  /\ FieldsOutOfRange = {"fps"}
  /\ ThrewMessage(<<MsgFps>>)

\* --------------------------------------------------------------------- C13
\* The error the prompt checks give for the call's prompt.
PromptErrorExpected ==
  IF prompt.len = 0 \/ prompt.trimmed = 0 THEN <<MsgPromptRequired>>
  ELSE IF kind = "image" THEN <<MsgImagePromptLong>> ELSE <<MsgVideoPromptLong>>

\* C13: a call whose prompt is empty, whitespace only or too long fails, and
\* the error is the prompt error whatever the options are.
C13_PromptCheckedFirst ==
  (PromptOutOfRange /\ pc # "call") =>
    /\ pc = "done"
    /\ ThrewMessage(PromptErrorExpected)

\* A video request with a 1001-character prompt and two options out of
\* range has failed with the prompt error.
C13_Witness ==
  /\ kind = "video"
  /\ prompt.len = 1001
  /\ Cardinality(FieldsOutOfRange) = 2
  /\ pc = "done"
  /\ ThrewMessage(<<MsgVideoPromptLong>>)

\* --------------------------------------------------------------------- C14
\* The operation the submission returned was already done.
SubmittedDone == kind = "video" /\ operation.done /\ refreshCount = 0

\* C14: when the submitted operation is already done, no timer is started,
\* no refresh is issued and no time passes before the result is handled; if
\* it completed without error with one inline-bytes item, the call returns
\* one artifact.
C14_DoneAtSubmission ==
  SubmittedDone =>
    /\ sleeps = 0
    /\ now = startTime
    /\ pc \in {"loop", "finish", "save", "done"}
    /\ ( /\ Settled
         /\ ~operation.error
         /\ \E id \in {1, 2} : ItemsOf(operation) = <<InlineOnly(id)>> )
       => (Succeeded /\ Len(svc.buffers) = 1)

\* Scenario A: the submitted operation was done with one inline-bytes item
\* and the call has returned one artifact without sleeping.
C14_Witness ==
  /\ SubmittedDone
  /\ ~operation.error
  /\ ItemsOf(operation) = <<InlineOnly(1)>>
  /\ Succeeded
  /\ Len(svc.buffers) = 1
  /\ sleeps = 0
  /\ now = startTime

\* --------------------------------------------------------------------- C15
\* The result items the provider answered the call with.
Items ==
  IF kind = "video" THEN ItemsOf(operation)
  ELSE IF res = None THEN <<>> ELSE res[1]

\* The conversion loop has run over a non-empty result and the call is over.
Converted ==
  /\ Settled
  /\ Len(Items) > 0
  /\ kind = "video" => (operation.done /\ ~operation.error)

\* An item with no payload object, or with neither bytes nor a locator.
Malformed(item) == ~item.data \/ (~item.uri /\ item.bytes = None)

InlineCount == Cardinality({ i \in DOMAIN Items : HasInlineBytes(Items[i]) })

NoValidArtifacts ==
  IF kind = "video" THEN ThrewMessage(<<MsgVideoFailed, MsgNoValidVideo>>)
  ELSE ThrewMessage(<<MsgImageFailed, MsgNoValidImage>>)

\* C15: malformed items are skipped: a result whose items are malformed or
\* carry inline bytes gives one artifact per inline item, and fails with the
\* no-valid-data error when that leaves nothing; a call that succeeds never
\* returns an empty list.
C15_MalformedItemsSkipped ==
  /\ Succeeded => Len(svc.buffers) > 0
  /\ ( /\ Converted
       /\ \A i \in DOMAIN Items : Malformed(Items[i]) \/ ~Items[i].uri )
     => IF InlineCount > 0
          THEN Succeeded /\ Len(svc.buffers) = InlineCount
          ELSE NoValidArtifacts

\* A video result of one item without a payload object and one with inline
\* bytes has given one artifact.
C15_Witness ==
  /\ kind = "video"
  /\ Converted
  /\ Len(Items) = 2
  /\ \E i \in DOMAIN Items : ~Items[i].data
  /\ InlineCount = 1
  /\ Succeeded
  /\ Len(svc.buffers) = 1

\* --------------------------------------------------------------------- C16
RemoteFetchUnsupported == ThrewMessage(<<MsgVideoFailed, MsgGcsDownload>>)

\* C16: a completed video result with an item that carries only a remote
\* locator never succeeds: the call fails with the download-not-implemented
\* error, and the buffers of a successful call all come from inline bytes.
C16_LocatorNeverSilent ==
  /\ ( /\ kind = "video"
       /\ Converted
       /\ \E i \in DOMAIN Items : Items[i] = LocatorOnly )
     => RemoteFetchUnsupported
  /\ (kind = "video" /\ Succeeded) =>
       /\ \A i \in DOMAIN Items : ~HasLocator(Items[i])
       /\ Len(svc.buffers) = InlineCount

\* A result whose only item carries only a locator has failed with the
\* download-not-implemented error.
C16_Witness ==
  /\ kind = "video"
  /\ Converted
  /\ Items = <<LocatorOnly>>
  /\ RemoteFetchUnsupported

\* --------------------------------------------------------------------- C17
Stages == {"submission", "tracking", "normalization"}

\* The stage at which a failed generateVideo call failed: before the
\* submission, at the submission (no snapshot obtained and no timer started),
\* while tracking (timeout, lost handle, rejected refresh, provider error,
\* empty result) or while converting the result items.
FailedStage ==
  IF Len(submitted) = 0 THEN "validation"
  ELSE IF ~operation.done /\ sleeps = 0 THEN "submission"
  ELSE IF ~operation.done \/ operation.error \/ Len(ItemsOf(operation)) = 0
    THEN "tracking"
  ELSE "normalization"

\* The context the catch block puts in front of a failure of each stage.
ContextAt(stage) ==
  CASE stage = "submission" -> videoCatch(Thrown(<<MsgProviderRejected>>)).message[1]
    [] stage = "tracking" -> videoCatch(Thrown(<<MsgTimedOut>>)).message[1]
    [] stage = "normalization" -> videoCatch(Thrown(<<MsgNoValidVideo>>)).message[1]

\* C17: every failure of generateVideo is surfaced as a context followed by
\* the original cause, and the context is that of the stage that failed and
\* of no other stage.
C17_StageContextOnFailure ==
  (kind = "video" /\ svc.status = "thrown") =>
    /\ svc.thrown.isError
    /\ Len(svc.thrown.message) >= 2
    /\ FailedStage \in Stages
    /\ svc.thrown.message[1] = ContextAt(FailedStage)
    /\ \A s \in Stages \ {FailedStage} : svc.thrown.message[1] # ContextAt(s)

\* --------------------------------------------------------------------- C18
\* C18: a generateVideo call submits at most once, and once it has failed it
\* neither submits again nor goes back into the poll loop: no further
\* submission, timer, refresh or snapshot.
C18_NoAutomaticRetry ==
  /\ [] (kind = "video" => Len(submitted) <= 1)
  /\ [][ (kind = "video" /\ svc.status = "thrown") =>
           /\ submitted' = submitted
           /\ sleeps' = sleeps
           /\ refreshCount' = refreshCount
           /\ operation' = operation
           /\ startTime' = startTime
           /\ svc' = svc ]_vars

\* A refresh was rejected after two earlier ones: the call is over with the
\* one submission it made.
C18_Witness ==
  /\ kind = "video"
  /\ pc = "done"
  /\ refreshCount = 3
  /\ ~operation.done
  /\ ThrewMessage(<<MsgVideoFailed, MsgProviderRejected>>)
  /\ Len(submitted) = 1

\* --------------------------------------------------------------------- C19
\* C19: the duration a generate-video tool call sends to the provider is 4,
\* 6 or 8 seconds, and it is 8 when the tool was called without a duration.
C19_ToolDurationSet ==
  (entry = "tool" /\ kind = "video" /\ Len(submitted) = 1) =>
    /\ submitted[1].durationSeconds \in {4, 6, 8}
    /\ options.durationSeconds = None => submitted[1].durationSeconds = 8

\* --------------------------------------------------------------------- C20
\* The items whose inline bytes are valid base64.
DecodableCount ==
  Cardinality({ i \in DOMAIN Items :
                  HasInlineBytes(Items[i]) /\ Items[i].bytes[1].base64 })

\* C20: inline bytes that are not valid base64 give no artifact and do not
\* stop the other items: a video result without locators returns one intact
\* buffer per decodable item, and fails when no item is decodable.
C20_DecodeFailureIsolated ==
  ( /\ kind = "video"
    /\ Converted
    /\ \A i \in DOMAIN Items : ~HasLocator(Items[i]) )
  => IF DecodableCount > 0
       THEN /\ Succeeded
            /\ Len(svc.buffers) = DecodableCount
            /\ \A i \in DOMAIN svc.buffers : svc.buffers[i].intact
       ELSE svc.status = "thrown"
\* --------------------------------------------------------------------- C11
\* The locals of call c are those of a call that only ever saw answers about
\* its own submission.
OwnAnswersOnly(c) ==
  /\ calls[c].operation.handle \in {0, c}
  /\ calls[c].svc.status = "returned" =>
       \A i \in DOMAIN calls[c].svc.buffers : calls[c].svc.buffers[i].bytes = c

\* C11: in every interleaving of the concurrent calls, each call's snapshot,
\* refresh count, start time and outcome come from the answers to its own
\* submission and refreshes, and a step of one call leaves the snapshot,
\* refresh count, start time and outcome of every other call as they were.
C11_ConcurrentCallsIndependent ==
  /\ [] (\A c \in CallIds : OwnAnswersOnly(c))
  /\ [][ \A c, d \in CallIds :
           (c # d /\ calls'[c] # calls[c]) => calls'[d] = calls[d] ]_vars

\* The first call has returned its own artifact after one refresh while the
\* second, submitted later, is waiting for its third refresh.
C11_Witness ==
  /\ calls[1].svc.status = "returned"
  /\ calls[1].refreshCount = 1
  /\ calls[1].svc.buffers = <<[bytes |-> 1, intact |-> TRUE]>>
  /\ calls[2].pc = "refresh"
  /\ calls[2].refreshCount = 3
  /\ calls[2].startTime = 1

\* --------------------------------------------------------------------- C21
\* The positions of the result items that carry inline bytes.
InlineIndices == { i \in DOMAIN Items : HasInlineBytes(Items[i]) }

\* The position of the j-th of them.
InlineIndex(j) ==
  CHOOSE i \in InlineIndices :
    Cardinality({ k \in InlineIndices : k < i }) = j - 1

\* C21: the buffers a call returns are the payloads of its inline items, one
\* per item and in the order of the items; the handler writes buffer i as
\* the i-th file, under the i-th filename and path, and a success response
\* lists the paths in that order.
C21_OrderPreserved ==
  /\ Succeeded =>
       /\ Len(svc.buffers) = Cardinality(InlineIndices)
       /\ \A j \in DOMAIN svc.buffers :
            svc.buffers[j].bytes = Items[InlineIndex(j)].bytes[1].id
  /\ \A i \in DOMAIN files :
       /\ Succeeded
       /\ files[i].data = svc.buffers[i]
       /\ files[i].path = saved.filePaths[i]
       /\ saved.filePaths[i] = filePathOf(saved.filenames[i])
       /\ saved.filenames[i].n = i
  /\ (response.sent /\ response.success /\ Len(files) > 0) =>
       response.filePaths = Some([i \in DOMAIN files |-> files[i].path])

\* A video tool call whose result held payload 2 before payload 1 has saved
\* payload 2 as video_1 and payload 1 as video_2.
C21_Witness ==
  /\ entry = "tool"
  /\ kind = "video"
  /\ Len(Items) = 2
  /\ Items[1].bytes = Some([id |-> 2, base64 |-> TRUE])
  /\ Items[2].bytes = Some([id |-> 1, base64 |-> TRUE])
  /\ response.sent /\ response.success
  /\ Len(files) = 2
  /\ files[1].data.bytes = 2 /\ files[1].path.name.n = 1
  /\ files[2].data.bytes = 1 /\ files[2].path.name.n = 2

\* --------------------------------------------------------------------- C22
\* The current snapshot is done and arrived more than 600 seconds after the
\* poll loop began.
DoneAfterCeiling ==
  /\ kind = "video"
  /\ operation.done
  /\ refreshCount >= 1
  /\ now - startTime > 600 * 1000

\* C22: a call that holds a done snapshot never reports a timeout, however
\* late the snapshot arrived: a populated error gives the provider error,
\* and a result of inline-bytes items gives success.
C22_DoneNeverTimeout ==
  (kind = "video" /\ operation.done) =>
    /\ ~TimedOut
    /\ Settled =>
         /\ operation.error => ProviderFailed
         /\ ( /\ ~operation.error
              /\ Len(Items) > 0
              /\ \A i \in DOMAIN Items : Items[i] \in {InlineOnly(1), InlineOnly(2)} )
            => Succeeded

\* A refresh answered done with one inline item after the ceiling had
\* passed, and the call has returned its artifact.
C22_Witness ==
  /\ DoneAfterCeiling
  /\ ~operation.error
  /\ Items = <<InlineOnly(1)>>
  /\ Succeeded
  /\ Len(svc.buffers) = 1

\* --------------------------------------------------------------------- C23
\* C23: when a tool call has answered success = false, storage holds no file
\* of that call.
C23_FailureLeavesNoFile ==
  (entry = "tool" /\ response.sent /\ ~response.success) => files = <<>>

\* --------------------------------------------------------------------- C24
\* The extension that goes with a MIME type.
ExtensionOf(mimeType) == IF mimeType = "image/png" THEN "png" ELSE "jpg"

\* C24: every file a generate-image tool call has written carries the
\* extension of the outputMimeType the call sent to the provider.
C24_ExtensionMatchesMimeType ==
  (entry = "tool" /\ kind = "image") =>
    \A i \in DOMAIN files :
      files[i].path.name.extension = ExtensionOf(submitted[1].outputMimeType)
====
